---- MODULE Spec2Model ----
(***************************************************************************)
(* PII redaction engine: backend/pii_detector.py (GeminiValidator,         *)
(* PIIDetector.detect_all, get_redaction_label, redact_text) and the       *)
(* /api/redact/text handler of backend/main.py.                            *)
(*                                                                         *)
(* A text is a sequence of one-character strings; offsets are 0-based and  *)
(* half-open as in Python.  Labels are sequences of characters too, so     *)
(* that lengths are the lengths the code produces.                         *)
(***************************************************************************)
EXTENDS Integers, Sequences, FiniteSets, TLC

VARIABLES
    pc,                  \* position of the request in the pipeline
    text,                \* the request's text
    settings,            \* the request's redaction_settings
    detections,          \* validated_results / detection_results (category -> list)
    all_detections,      \* redact_text: labelled candidates, sorted by size
    filtered_detections, \* redact_text: the plan, sorted by start descending
    redacted_text,       \* redact_text: the working copy
    k,                   \* redact_text: number of plan entries already processed
    applied,             \* plan entries the rewrite loop has substituted (history)
    response,            \* what the handler returns to the caller
    results,             \* detect_all: the producers' output (category -> list)
    queue,               \* detect_all: candidates and name groups not yet validated
    calls,               \* the oracle calls made so far, with their responses
    doc_ents             \* detect_names: the recognizer's PERSON entities (start, end)

vars == <<pc, text, settings, detections, all_detections, filtered_detections,
          redacted_text, k, applied, response, results, queue, calls, doc_ents>>

redactVars == <<all_detections, filtered_detections, redacted_text, k, applied>>
detectVars == <<results, queue, calls, doc_ents>>

-----------------------------------------------------------------------------
(* Bounds of the model *)

TextLen == 3      \* length of the request's text
MaxSpans == 3     \* spans in a detection set handed to redact_text
MaxPattern == 2   \* matches of all producers together, per request
MaxDiscover == 1  \* entries of a discover response

Alphabet == {"a", "b"}

-----------------------------------------------------------------------------
(* Python helpers *)

Min(a, b) == IF a <= b THEN a ELSE b
Max(a, b) == IF a >= b THEN a ELSE b

\* s[a:b] with Python's clamping of out-of-range and negative indices
Slice(s, a, b) ==
    LET n  == Len(s)
        lo == IF a < 0 THEN Max(n + a, 0) ELSE Min(a, n)
        hi == IF b < 0 THEN Max(n + b, 0) ELSE Min(b, n)
    IN  IF lo >= hi THEN <<>> ELSE SubSeq(s, lo + 1, hi)

\* needle in hay (substring test); the empty string is in every string
Contains(hay, needle) ==
    \E p \in 0..Len(hay) :
        /\ p + Len(needle) <= Len(hay)
        /\ Slice(hay, p, p + Len(needle)) = needle

\* hay.find(needle): first occurrence, or -1
Find(hay, needle) ==
    IF Contains(hay, needle)
    THEN CHOOSE p \in 0..Len(hay) :
            /\ p + Len(needle) <= Len(hay)
            /\ Slice(hay, p, p + Len(needle)) = needle
            /\ \A q \in 0..(p - 1) :
                  ~(q + Len(needle) <= Len(hay)
                    /\ Slice(hay, q, q + Len(needle)) = needle)
    ELSE -1

\* list.sort: stable; before[i, j] iff the key of s[i] is strictly smaller
\* than the key of s[j]
StableSort(s, before) ==
    LET n == Len(s)
        rank(i) == 1 + Cardinality({j \in 1..n :
                        \/ before[j, i]
                        \/ (~before[i, j] /\ j < i)})
    IN  [r \in 1..n |-> s[CHOOSE i \in 1..n : rank(i) = r]]

Digit(d) == <<"0", "1", "2", "3", "4", "5", "6", "7", "8", "9">>[d + 1]

\* str(n) for n >= 0
RECURSIVE Str(_)
Str(n) == IF n < 10 THEN <<Digit(n)>> ELSE Str(n \div 10) \o <<Digit(n % 10)>>

RECURSIVE Flatten(_)
Flatten(ss) == IF ss = <<>> THEN <<>> ELSE Head(ss) \o Flatten(Tail(ss))

Range(s) == {s[i] : i \in 1..Len(s)}

-----------------------------------------------------------------------------
(* Categories and settings *)

\* keys of the results dict, in insertion order
Categories == <<"emails", "phones", "names", "addresses", "ssn", "credit_cards">>
CategorySet == Range(Categories)

AbsentLabel == <<"absent">>  \* settings has no custom_label key
NullLabel == <<"null">>      \* custom_label is None

\* settings.get("redact_<pii_type>", True)
Enabled(st, pii_type) == st.redact[pii_type]

-----------------------------------------------------------------------------
(* get_redaction_label *)

type_labels ==
    [email       |-> <<"E", "M", "A", "I", "L">>,
     phone       |-> <<"P", "H", "O", "N", "E">>,
     name        |-> <<"N", "A", "M", "E">>,
     address     |-> <<"A", "D", "D", "R", "E", "S", "S">>,
     ssn         |-> <<"S", "S", "N">>,
     credit_card |-> <<"C", "A", "R", "D">>]

DefaultTypeLabel == <<"R", "E", "D", "A", "C", "T", "E", "D">>
BlackBoxes == [i \in 1..8 |-> "#"]
DefaultCustomLabel == <<"[">> \o DefaultTypeLabel \o <<"]">>

LabelName(pii_type) ==
    IF pii_type \in DOMAIN type_labels THEN type_labels[pii_type] ELSE DefaultTypeLabel

get_redaction_label(pii_type, index, st) ==
    IF st.redaction_style = "black_boxes" THEN BlackBoxes
    ELSE IF st.redaction_style = "custom"
         THEN IF st.custom_label = AbsentLabel THEN DefaultCustomLabel
              ELSE st.custom_label
         ELSE <<"[">> \o LabelName(pii_type) \o <<"_">> \o Str(index + 1) \o <<"]">>

-----------------------------------------------------------------------------
(* redact_text *)

Size(d) == d.end - d.start

\* the label loop: every item of an enabled category, in dict order, with
\* the category's running counter.  key is the dict key the item sits under.
Labelled(item, pii_type, index, st) ==
    [key             |-> pii_type,
     type            |-> item.type,
     value           |-> item.value,
     start           |-> item.start,
     end             |-> item.end,
     discovered      |-> item.discovered,
     redaction_label |-> get_redaction_label(pii_type, index, st)]

CollectDetections(dets, st) ==
    Flatten([c \in 1..Len(Categories) |->
        IF Enabled(st, Categories[c])
        THEN [i \in 1..Len(dets[Categories[c]]) |->
                Labelled(dets[Categories[c]][i], Categories[c], i - 1, st)]
        ELSE <<>>])

\* a size sort that puts the smallest span first
SmallestFirst(a, b) ==
    \/ Size(a) < Size(b)
    \/ (Size(a) = Size(b) /\ a.start < b.start)

\* key=lambda x: (-(x["end"] - x["start"]), x["start"])
SizeBefore(a, b) ==
    \/ Size(a) > Size(b)
    \/ (Size(a) = Size(b) /\ a.start < b.start)

SortBySize(all) ==
    StableSort(all, [i, j \in 1..Len(all) |-> SizeBefore(all[i], all[j])])

\* a resolver that only counts a span inside a kept one as overlapping
OverlapsWhenInside(det, kept) == det.start >= kept.start /\ det.end <= kept.end

Overlaps(det, kept) == ~(det.end <= kept.start \/ det.start >= kept.end)

RECURSIVE FilterOverlaps(_, _)
FilterOverlaps(all, kept) ==
    IF all = <<>> THEN kept
    ELSE LET det == Head(all)
         IN  IF \E j \in 1..Len(kept) : Overlaps(det, kept[j])
             THEN FilterOverlaps(Tail(all), kept)
             ELSE FilterOverlaps(Tail(all), Append(kept, det))

\* a position order that puts the smallest start first
StartAscending(a, b) == a.start < b.start

\* key=lambda x: x["start"], reverse=True
StartAfter(a, b) == a.start > b.start

\* a position sort without reverse=True
SortByStartForward(plan) ==
    StableSort(plan, [i, j \in 1..Len(plan) |-> plan[i].start < plan[j].start])

SortByStartReverse(plan) ==
    StableSort(plan, [i, j \in 1..Len(plan) |-> StartAfter(plan[i], plan[j])])

\* lines 691-723: the plan of redact_text
PlanOf(dets, st) ==
    SortByStartReverse(FilterOverlaps(SortBySize(CollectDetections(dets, st)), <<>>))

\* the two checks of the rewrite loop
InBounds(d, t) == 0 <= d.start /\ d.start < d.end /\ d.end <= Len(t)

ValueMatches(d, t) ==
    LET original_text_at_pos == Slice(t, d.start, d.end)
    IN  original_text_at_pos = d.value \/ Contains(original_text_at_pos, d.value)

\* a splice that takes end as the last position of the span
SpliceInclusiveEnd(working, d) ==
    Slice(working, 0, d.start) \o d.redaction_label
        \o Slice(working, d.end + 1, Len(working))

Splice(working, d) ==
    Slice(working, 0, d.start) \o d.redaction_label \o Slice(working, d.end, Len(working))

NoResponse == [status |-> 0]

\* lines 691-723: label, size sort, overlap filter, position sort
RedactPlan ==
    /\ pc = "redact"
    /\ LET all == CollectDetections(detections, settings)
       IN  IF all = <<>>
           THEN /\ all_detections' = <<>>
                /\ filtered_detections' = <<>>
                /\ redacted_text' = text
                /\ pc' = "respond"
           ELSE /\ all_detections' = SortBySize(all)
                /\ filtered_detections' = PlanOf(detections, settings)
                /\ redacted_text' = text
                /\ pc' = "rewrite"
    /\ k' = 0
    /\ applied' = <<>>
    /\ UNCHANGED <<text, settings, detections, response, detectVars>>

\* lines 727-736: one iteration of the rewrite loop
RedactStep ==
    /\ pc = "rewrite"
    /\ k < Len(filtered_detections)
    /\ LET detection == filtered_detections[k + 1]
       IN  IF InBounds(detection, text) /\ ValueMatches(detection, text)
           THEN IF detection.redaction_label = NullLabel
                THEN \* str + None raises TypeError: the handler answers 500
                     /\ pc' = "done"
                     /\ response' = [status |-> 500]
                     /\ UNCHANGED <<redacted_text, applied, k>>
                ELSE /\ redacted_text' = Splice(redacted_text, detection)
                     /\ applied' = Append(applied, detection)
                     /\ k' = k + 1
                     /\ UNCHANGED <<pc, response>>
           ELSE /\ k' = k + 1
                /\ UNCHANGED <<redacted_text, applied, pc, response>>
    /\ UNCHANGED <<text, settings, detections, all_detections, filtered_detections,
                   detectVars>>

\* line 738: the loop is over
RedactReturn ==
    /\ pc = "rewrite"
    /\ k = Len(filtered_detections)
    /\ pc' = "respond"
    /\ UNCHANGED <<text, settings, detections, all_detections, filtered_detections,
                   redacted_text, k, applied, response, detectVars>>

\* main.py lines 64-80: the statistics and the response body
Respond ==
    /\ pc = "respond"
    /\ response' = [status     |-> 200,
                    original   |-> text,
                    redacted   |-> redacted_text,
                    statistics |-> [c \in CategorySet |-> Len(detections[c])],
                    detections |-> detections]
    /\ pc' = "done"
    /\ UNCHANGED <<text, settings, detections, all_detections, filtered_detections,
                   redacted_text, k, applied, detectVars>>

-----------------------------------------------------------------------------
(* Span producers *)

NameGap == 5
MinNameLen == 2

Item(type, value, start, end) ==
    [type |-> type, value |-> value, start |-> start, end |-> end,
     discovered |-> FALSE, reasoning |-> "none"]

Reverse(s) == [i \in 1..Len(s) |-> s[Len(s) + 1 - i]]

RECURSIVE LStrip(_)
LStrip(s) == IF s # <<>> /\ Head(s) = " " THEN LStrip(Tail(s)) ELSE s

\* str.strip()
Strip(s) == Reverse(LStrip(Reverse(LStrip(s))))

\* seen_positions: a hit at a (start, end) already seen is skipped
RECURSIVE Dedupe(_, _)
Dedupe(hits, seen) ==
    IF hits = <<>> THEN <<>>
    ELSE IF Head(hits) \in seen THEN Dedupe(Tail(hits), seen)
         ELSE <<Head(hits)>> \o Dedupe(Tail(hits), seen \cup {Head(hits)})

\* the matches of a pattern become items whose value is the matched text
PatternItems(type, hits, t) ==
    [i \in 1..Len(hits) |-> Item(type, Slice(t, hits[i][1], hits[i][2]), hits[i][1], hits[i][2])]

detect_emails(hits, t, st) ==
    IF ~st.redact["emails"] THEN <<>> ELSE PatternItems("email", hits, t)

detect_phones(hits, t, st) ==
    IF ~st.redact["phones"] THEN <<>> ELSE PatternItems("phone", Dedupe(hits, {}), t)

detect_ssn(hits, t, st) ==
    IF ~st.redact["ssn"] THEN <<>> ELSE PatternItems("ssn", hits, t)

detect_credit_cards(hits, t, st) ==
    IF ~st.redact["credit_cards"] THEN <<>> ELSE PatternItems("credit_card", hits, t)

detect_addresses(hits, t, st) ==
    IF ~st.redact["addresses"] THEN <<>> ELSE PatternItems("address", Dedupe(hits, {}), t)

StartBefore(a, b) == a.start < b.start

\* sorted(names, key=lambda x: x["start"])
SortByStart(names) ==
    StableSort(names, [i, j \in 1..Len(names) |-> StartBefore(names[i], names[j])])

\* a merge that returns the fragments as they are
NoMerge(names_sorted) == names_sorted

\* lines 457-480: a fragment within NameGap of the accumulator is absorbed
RECURSIVE MergeNames(_)
RECURSIVE Absorb(_, _)
MergeNames(names_sorted) ==
    IF names_sorted = <<>> THEN <<>> ELSE Absorb(Head(names_sorted), Tail(names_sorted))
Absorb(current, rest) ==
    IF rest # <<>> /\ Head(rest).start - current.end <= NameGap
    THEN Absorb(Item("name", current.value \o <<" ">> \o Head(rest).value,
                     current.start, Head(rest).end), Tail(rest))
    ELSE <<current>> \o MergeNames(rest)

\* ents: the PERSON entities of the recognizer, as (start_char, end_char)
detect_names(ents, t, st) ==
    IF ~st.redact["names"] THEN <<>>
    ELSE LET long  == SelectSeq(ents, LAMBDA e : Len(Strip(Slice(t, e[1], e[2]))) >= MinNameLen)
             fresh == Dedupe(long, {})
             names == [i \in 1..Len(fresh) |->
                          Item("name", Strip(Slice(t, fresh[i][1], fresh[i][2])),
                               fresh[i][1], fresh[i][2])]
         IN  MergeNames(SortByStart(names))

detect_usernames(hits, t, st) ==
    IF ~st.redact["names"] THEN <<>> ELSE PatternItems("name", Dedupe(hits, {}), t)

\* lines 523-533: a username joins the names unless it overlaps one of them
RECURSIVE CombineUsernames(_, _, _)
CombineUsernames(names, usernames, name_positions) ==
    IF usernames = <<>> THEN names
    ELSE LET username == Head(usernames)
             overlap  == \E i \in 1..Len(names) :
                            ~(username.end <= names[i].start \/ username.start >= names[i].end)
         IN  IF <<username.start, username.end>> \notin name_positions /\ ~overlap
             THEN CombineUsernames(Append(names, username), Tail(usernames), name_positions)
             ELSE CombineUsernames(names, Tail(usernames), name_positions)

\* the producers, in the order detect_all runs them
ProducerOrder == <<"ner", "usernames", "emails", "phones", "addresses", "ssn", "credit_cards">>
Producers == Range(ProducerOrder)

\* the settings key that gates a producer
GateOf(p) == IF p \in {"ner", "usernames"} THEN "names" ELSE p

\* producers that run one pattern (or one recognizer pass) with finditer:
\* their matches come in ascending order and do not overlap
SinglePass == {"emails", "ner", "usernames", "ssn", "credit_cards"}

ValidSpans(t) == {se \in (0..Len(t)) \X (0..Len(t)) : se[1] < se[2]}

\* lines 519-543 on the raw matches raw[producer]
ProducerResults(raw, t, st) ==
    LET names     == detect_names(raw["ner"], t, st)
        usernames == detect_usernames(raw["usernames"], t, st)
        positions == {<<names[i].start, names[i].end>> : i \in 1..Len(names)}
    IN  [emails       |-> detect_emails(raw["emails"], t, st),
         phones       |-> detect_phones(raw["phones"], t, st),
         names        |-> CombineUsernames(names, usernames, positions),
         addresses    |-> detect_addresses(raw["addresses"], t, st),
         ssn          |-> detect_ssn(raw["ssn"], t, st),
         credit_cards |-> detect_credit_cards(raw["credit_cards"], t, st)]

-----------------------------------------------------------------------------
(* Name groups of the validation step, lines 552-567 *)

Abs(x) == IF x < 0 THEN -x ELSE x

Near(a, b) == Abs(a.start - b.end) <= NameGap \/ Abs(a.end - b.start) <= NameGap

\* index of the first group holding an item near `item`, or 0
FirstGroup(groups, item) ==
    IF \E g \in 1..Len(groups) : \E j \in 1..Len(groups[g]) : Near(item, groups[g][j])
    THEN CHOOSE g \in 1..Len(groups) :
            /\ \E j \in 1..Len(groups[g]) : Near(item, groups[g][j])
            /\ \A h \in 1..(g - 1) : \A j \in 1..Len(groups[h]) : ~Near(item, groups[h][j])
    ELSE 0

RECURSIVE GroupNames(_, _)
GroupNames(items_sorted, groups) ==
    IF items_sorted = <<>> THEN groups
    ELSE LET item == Head(items_sorted)
             g    == FirstGroup(groups, item)
         IN  IF g = 0
             THEN GroupNames(Tail(items_sorted), Append(groups, <<item>>))
             ELSE GroupNames(Tail(items_sorted),
                             [groups EXCEPT ![g] = Append(groups[g], item)])

RECURSIVE JoinValues(_)
JoinValues(group) ==
    IF Len(group) = 1 THEN group[1].value
    ELSE group[1].value \o <<" ">> \o JoinValues(Tail(group))

SeqMin(ns) == CHOOSE x \in Range(ns) : \A i \in 1..Len(ns) : x <= ns[i]
SeqMax(ns) == CHOOSE x \in Range(ns) : \A i \in 1..Len(ns) : x >= ns[i]

\* lines 571-576
MergedName(group) ==
    Item("name", JoinValues(group),
         SeqMin([i \in 1..Len(group) |-> group[i].start]),
         SeqMax([i \in 1..Len(group) |-> group[i].end]))

\* the validation work of detect_all, in the order the loops reach it
Unit(key, item, size) == [key |-> key, item |-> item, size |-> size]

NameUnits(items) ==
    LET groups == GroupNames(SortByStart(items), <<>>)
    IN  [g \in 1..Len(groups) |->
            IF Len(groups[g]) > 1
            THEN Unit("names", MergedName(groups[g]), Len(groups[g]))
            ELSE Unit("names", groups[g][1], 1)]

ValidationQueue(res) ==
    Flatten([c \in 1..Len(Categories) |->
        IF Categories[c] = "names" THEN NameUnits(res["names"])
        ELSE [i \in 1..Len(res[Categories[c]]) |->
                 Unit(Categories[c], res[Categories[c]][i], 1)]])

-----------------------------------------------------------------------------
(* GeminiValidator: what each method makes of the model's response *)

\* Responses of generate_content, after the code-fence stripping:
\*   raise      the call raised; quota iff the message has 429/quota/exceeded
\*   text       not JSON; mentions_false iff "false" or "not pii" occurs in it
\*   nonobject  JSON, but not an object (list, string, number, null)
\*   object     a JSON object; an absent key is the empty tuple
Returned(v) == [raised |-> FALSE, quota |-> FALSE, value |-> v]
Raised(quota) == [raised |-> TRUE, quota |-> quota, value |-> <<>>]

Get(field, default) == IF field = <<>> THEN default ELSE field[1]

\* lines 101-127
validate_pii(resp) ==
    CASE resp.kind = "raise"     -> Raised(resp.quota)
      [] resp.kind = "object"    -> Returned(Get(resp.is_pii, TRUE))
      [] resp.kind = "text"      -> Returned(~resp.mentions_false)
      [] resp.kind = "nonobject" -> Raised(FALSE)

\* lines 184-204: one entry of new_detections
DiscoveredEntry(det, t) ==
    LET value == Get(det.value, <<>>)
        start == Get(det.start, -1)
        end   == Get(det.end, -1)
        pos   == Find(t, value)
    IN  IF start = -1 \/ end = -1
        THEN IF pos # -1
             THEN <<[type |-> Get(det.type, "other"), value |-> value,
                     start |-> pos, end |-> pos + Len(value)]>>
             ELSE <<>>
        ELSE <<[type |-> Get(det.type, "other"), value |-> value,
                start |-> start, end |-> end]>>

\* lines 171-218
discover_pii(t, resp) ==
    CASE resp.kind = "raise"     -> Raised(resp.quota)
      [] resp.kind = "text"      -> Returned(<<>>)
      [] resp.kind = "nonobject" -> Raised(FALSE)
      [] resp.kind = "object"    ->
            LET new_detections == Get(resp.new_detections, <<>>)
            IN  IF \E i \in 1..Len(new_detections) : ~new_detections[i].isobject
                THEN Raised(FALSE)
                ELSE Returned(Flatten([i \in 1..Len(new_detections) |->
                                          DiscoveredEntry(new_detections[i], t)]))

\* lines 242-253
explain_redaction(resp) ==
    IF resp.kind = "raise" THEN Raised(resp.quota) ELSE Returned(<<>>)

-----------------------------------------------------------------------------
(* detect_all *)

type_mapping ==
    [email |-> "emails", phone |-> "phones", name |-> "names", address |-> "addresses",
     ssn |-> "ssn", credit_card |-> "credit_cards", username |-> "names"]

MappedType(det_type) ==
    IF det_type \in DOMAIN type_mapping THEN type_mapping[det_type] ELSE "names"

\* mapped_type.rstrip('s')
RStripS(key) ==
    [emails |-> "email", phones |-> "phone", names |-> "name", addresses |-> "addresse",
     ssn |-> "ssn", credit_cards |-> "credit_card"][key]

\* lines 629-662: the discoveries join the validated results
RECURSIVE AddDiscoveries(_, _)
AddDiscoveries(validated_results, new_detections) ==
    IF new_detections = <<>> THEN validated_results
    ELSE LET new_det      == Head(new_detections)
             mapped_type  == MappedType(new_det.type)
             existing     == validated_results[mapped_type]
             is_duplicate == \E i \in 1..Len(existing) :
                                /\ existing[i].start = new_det.start
                                /\ existing[i].end = new_det.end
             added        == [type |-> RStripS(mapped_type), value |-> new_det.value,
                              start |-> new_det.start, end |-> new_det.end,
                              discovered |-> TRUE, reasoning |-> "discovered"]
         IN  IF is_duplicate
             THEN AddDiscoveries(validated_results, Tail(new_detections))
             ELSE AddDiscoveries([validated_results EXCEPT ![mapped_type] = Append(@, added)],
                                 Tail(new_detections))

EmptyResults == [c \in CategorySet |-> <<>>]

\* an error response that still carries what detect_all had found so far
ErrorWithDetections(r) ==
    [status |-> 503, detail |-> IF r.quota THEN "quota" ELSE "failed",
     detections |-> detections]

\* main.py lines 81-86: RuntimeError -> 503, anything else -> 500
OracleError(r) == [status |-> 503, detail |-> IF r.quota THEN "quota" ELSE "failed"]

\* one oracle call: what was asked, what came back, what the method made of it
Call(op, unit, resp, r) ==
    [op |-> op, key |-> unit.key, start |-> unit.item.start, end |-> unit.item.end,
     resp |-> resp, raised |-> r.raised, value |-> r.value]

NoUnit == Unit("", Item("", <<>>, 0, 0), 0)

\* lines 591-609: a single name; a rejected one stays if an accepted name is near
ValidatedName(validated_items, item, is_valid) ==
    IF is_valid THEN Append(validated_items, [item EXCEPT !.reasoning = "accepted"])
    ELSE IF \E i \in 1..Len(validated_items) : Near(item, validated_items[i])
         THEN Append(validated_items, [item EXCEPT !.reasoning = "neighbor"])
         ELSE validated_items

\* lines 570-590: a group of names is kept whatever the verdict
ValidatedGroup(validated_items, merged_name, is_valid) ==
    Append(validated_items,
           [merged_name EXCEPT !.reasoning = IF is_valid THEN "accepted" ELSE "full_name"])

\* lines 611-621
ValidatedItem(validated_items, item, is_valid) ==
    IF is_valid THEN Append(validated_items, [item EXCEPT !.reasoning = "accepted"])
    ELSE validated_items

\* a validation loop that hands over to discover after its first candidate
DiscoverAfterFirst(rest) == "discover"

AfterValidation(rest) == IF rest = <<>> THEN "discover" ELSE "validate"

-----------------------------------------------------------------------------
(* Inputs *)

Texts == [1..TextLen -> Alphabet]

Letters == <<"a", "b", "c", "d", "e", "f", "g", "h">>

\* a text whose characters are all different: any character moved, lost or
\* doubled by the rewrite shows
DistinctText == [i \in 1..TextLen |-> Letters[i]]

Styles == {"labels", "black_boxes", "custom"}
CustomLabel == <<"X", "X">>

\* the custom label is read by the custom style only
CustomLabels(style) ==
    IF style = "custom" THEN {CustomLabel, AbsentLabel, NullLabel} ELSE {AbsentLabel}

AllSettings ==
    UNION {{[redact |-> r, redaction_style |-> s, custom_label |-> l] :
               r \in [CategorySet -> BOOLEAN], l \in CustomLabels(s)} : s \in Styles}

Disabled(st) == {c \in CategorySet : ~st.redact[c]}

VResp(kind, is_pii, mentions_false, quota) ==
    [kind |-> kind, is_pii |-> is_pii, mentions_false |-> mentions_false, quota |-> quota]

ValidateResponses ==
    {VResp("object", v, FALSE, FALSE) : v \in {<<>>, <<TRUE>>, <<FALSE>>}}
    \cup {VResp("text", <<>>, m, FALSE) : m \in BOOLEAN}
    \cup {VResp("nonobject", <<>>, FALSE, FALSE)}
    \cup {VResp("raise", <<>>, FALSE, q) : q \in BOOLEAN}

DResp(kind, new_detections, quota) ==
    [kind |-> kind, new_detections |-> new_detections, quota |-> quota]

Entry(isobject, type, value, start, end) ==
    [isobject |-> isobject, type |-> type, value |-> value, start |-> start, end |-> end]

Optional(S) == {<<>>} \cup {<<x>> : x \in S}

Offsets == (-2)..(TextLen + 1)

Substrings(t) == {Slice(t, se[1], se[2]) : se \in ValidSpans(t)}

DiscoverResponses(entries) ==
    {DResp("raise", <<>>, q) : q \in BOOLEAN}
    \cup {DResp("text", <<>>, FALSE), DResp("nonobject", <<>>, FALSE), DResp("object", <<>>, FALSE)}
    \cup {DResp("object", <<ds>>, FALSE) :
            ds \in UNION {[1..n -> entries] : n \in 0..MaxDiscover}}

ExplainResponses ==
    {[kind |-> "text", quota |-> FALSE]} \cup {[kind |-> "raise", quota |-> q] : q \in BOOLEAN}

RequestHits == UNION {[1..n -> Producers \X ValidSpans(DistinctText)] : n \in 0..MaxPattern}

RawMatches(hits) ==
    [p \in Producers |->
        LET mine == SelectSeq(hits, LAMBDA h : h[1] = p)
        IN  [i \in 1..Len(mine) |-> mine[i][2]]]

OrderOf(p) == CHOOSE i \in 1..Len(ProducerOrder) : ProducerOrder[i] = p

\* hits listed producer by producer, of producers the settings switch on
\* (a disabled producer is not asked for matches), single-pass ones ascending
Matches(hits, st) ==
    /\ \A i \in 1..(Len(hits) - 1) : OrderOf(hits[i][1]) <= OrderOf(hits[i + 1][1])
    /\ \A i \in 1..Len(hits) : st.redact[GateOf(hits[i][1])]
    /\ \A i \in 1..(Len(hits) - 1) :
          (hits[i][1] = hits[i + 1][1] /\ hits[i][1] \in SinglePass)
              => hits[i][2][2] <= hits[i + 1][2][1]

-----------------------------------------------------------------------------
(* The request: main.py redact_text, lines 55-86 *)

\* detect_all lines 519-543: the producers run, the candidates are queued
RunProducers ==
    /\ pc = "start"
    /\ \E hits \in RequestHits :
          /\ Matches(hits, settings)
          /\ \E res \in {ProducerResults(RawMatches(hits), text, settings)} :
                \E units \in {ValidationQueue(res)} :
                   /\ results' = res
                   /\ queue' = units
                   /\ pc' = AfterValidation(units)
          /\ doc_ents' = RawMatches(hits)["ner"]
    /\ detections' = EmptyResults
    /\ UNCHANGED <<text, settings, response, calls, redactVars>>

\* lines 611-621: one candidate of a category other than names
ValidateItemWith(responses) ==
    /\ pc = "validate"
    /\ queue # <<>>
    /\ Head(queue).key # "names"
    /\ \E resp \in responses :
          LET unit == Head(queue)
              r    == validate_pii(resp)
          IN  /\ calls' = Append(calls, Call("validate", unit, resp, r))
              /\ IF r.raised
                 THEN /\ pc' = "done"
                      /\ response' = OracleError(r)
                      /\ UNCHANGED <<detections, queue>>
                 ELSE /\ detections' = [detections EXCEPT ![unit.key] =
                                           ValidatedItem(@, unit.item, r.value)]
                      /\ queue' = Tail(queue)
                      /\ pc' = AfterValidation(Tail(queue))
                      /\ UNCHANGED response
    /\ UNCHANGED <<text, settings, doc_ents, results, redactVars>>

\* lines 569-609: one group of names (or one single name)
ValidateNamesWith(responses) ==
    /\ pc = "validate"
    /\ queue # <<>>
    /\ Head(queue).key = "names"
    /\ \E resp \in responses :
          LET unit == Head(queue)
              r    == validate_pii(resp)
          IN  /\ calls' = Append(calls, Call("validate", unit, resp, r))
              /\ IF r.raised
                 THEN /\ pc' = "done"
                      /\ response' = OracleError(r)
                      /\ UNCHANGED <<detections, queue>>
                 ELSE /\ detections' = [detections EXCEPT !["names"] =
                                           IF unit.size > 1
                                           THEN ValidatedGroup(@, unit.item, r.value)
                                           ELSE ValidatedName(@, unit.item, r.value)]
                      /\ queue' = Tail(queue)
                      /\ pc' = AfterValidation(Tail(queue))
                      /\ UNCHANGED response
    /\ UNCHANGED <<text, settings, doc_ents, results, redactVars>>

\* lines 625-662: discover_pii, then its candidates join the results
DiscoverWith(responses) ==
    /\ pc = "discover"
    /\ \E resp \in responses :
          LET r == discover_pii(text, resp)
          IN  /\ calls' = Append(calls, Call("discover", NoUnit, resp, r))
              /\ IF r.raised
                 THEN /\ pc' = "done"
                      /\ response' = OracleError(r)
                      /\ UNCHANGED detections
                 ELSE /\ detections' = AddDiscoveries(detections, r.value)
                      /\ pc' = "explain"
                      /\ UNCHANGED response
    /\ UNCHANGED <<text, settings, doc_ents, results, queue, redactVars>>

\* lines 664-667: explain_redaction, the last step of detect_all
Explain ==
    /\ pc = "explain"
    /\ \E resp \in ExplainResponses :
          LET r == explain_redaction(resp)
          IN  /\ calls' = Append(calls, Call("explain", NoUnit, resp, r))
              /\ IF r.raised
                 THEN /\ pc' = "done"
                      /\ response' = OracleError(r)
                 ELSE /\ pc' = "redact"
                      /\ UNCHANGED response
    /\ UNCHANGED <<text, settings, doc_ents, detections, results, queue, redactVars>>

-----------------------------------------------------------------------------
(* Specifications *)

\* settings of the requests: every style with all categories on, and the
\* indexed style with phones or names switched off
RequestSettings ==
    {st \in AllSettings :
        /\ st.custom_label # AbsentLabel \/ st.redaction_style # "custom"
        /\ \/ Disabled(st) = {}
           \/ st.redaction_style = "labels" /\ Disabled(st) \in {{"phones"}, {"names"}}}

Idle ==
    /\ results = EmptyResults
    /\ doc_ents = <<>>
    /\ queue = <<>>
    /\ calls = <<>>
    /\ all_detections = <<>>
    /\ filtered_detections = <<>>
    /\ redacted_text = <<>>
    /\ k = 0
    /\ applied = <<>>
    /\ response = NoResponse

(* Spec: one request through the handler, from the producers to the response *)

\* the verdicts and failures of validate in a full request
RequestValidateResponses ==
    {VResp("object", <<TRUE>>, FALSE, FALSE), VResp("object", <<FALSE>>, FALSE, FALSE)}
    \cup {VResp("raise", <<>>, FALSE, q) : q \in BOOLEAN}

\* what a discover response may hold in a full request: a span over the whole
\* text or beyond it, with the text or a foreign value, or without offsets
RequestEntries(t) ==
    {Entry(TRUE, <<ty>>, <<v>>, se[1], se[2]) :
        ty \in {"phone", "zip"}, v \in {t, <<"z">>},
        se \in {<<<<0>>, <<Len(t)>>>>, <<<<-2>>, <<Len(t) + 1>>>>, <<<<>>, <<>>>>}}

ValidateItem == ValidateItemWith(RequestValidateResponses)
ValidateNames == ValidateNamesWith(RequestValidateResponses)
Discover == DiscoverWith(DiscoverResponses(RequestEntries(text)))

Init ==
    /\ pc = "start"
    /\ text = DistinctText
    /\ settings \in RequestSettings
    /\ detections = EmptyResults
    /\ Idle

Next ==
    \/ RunProducers
    \/ ValidateItem
    \/ ValidateNames
    \/ Discover
    \/ Explain
    \/ RedactPlan
    \/ RedactStep
    \/ RedactReturn
    \/ Respond

Spec == Init /\ [][Next]_vars

(* SpecRedact: redact_text on the detection sets detect_all can hand it:   *)
(* the producers' spans with every candidate accepted (a rejected one is   *)
(* the same as one never matched), then the discoveries, which have any    *)
(* offsets and any value.                                                  *)

AcceptAll(res) ==
    [c \in CategorySet |->
        LET units == IF c = "names" THEN NameUnits(res["names"])
                     ELSE [i \in 1..Len(res[c]) |-> Unit(c, res[c][i], 1)]
        IN  [i \in 1..Len(units) |-> [units[i].item EXCEPT !.reasoning = "accepted"]]]

\* offsets a discovery can carry: -1 never leaves discover_pii
DiscoveredOffsets == Offsets \ {-1}

\* a value equal to the text at the span, inside it, or foreign to the text;
\* the value of a span outside the text is never looked at
DiscoveredValues(t, s, e) ==
    IF 0 <= s /\ s < e /\ e <= Len(t)
    THEN {Slice(t, s, e), <<"z">>} \cup (IF e - s >= 2 THEN {Slice(t, s, s + 1)} ELSE {})
    ELSE {<<"z">>}

DiscoveredSpans(t) ==
    UNION {{[type |-> ty, value |-> v, start |-> se[1], end |-> se[2]] :
               ty \in DOMAIN type_labels, v \in DiscoveredValues(t, se[1], se[2])} :
           se \in DiscoveredOffsets \X DiscoveredOffsets}

SeqsUpTo(S, n) == UNION {[1..m -> S] : m \in 0..n}

RedactHits == SeqsUpTo(Producers \X ValidSpans(DistinctText), MaxSpans)
RedactDiscoveries == [d \in 0..(MaxSpans \div 2) |-> [1..d -> DiscoveredSpans(DistinctText)]]

\* lines 517-667 with every candidate accepted: up to MaxSpans spans, a
\* discovered span counting for two
DetectAccepted ==
    /\ pc = "start"
    /\ \E d \in 0..(MaxSpans \div 2) :
          \E hits \in RedactHits :
             /\ Len(hits) <= MaxSpans - 2 * d
             /\ Matches(hits, settings)
             /\ \E validated \in {AcceptAll(ProducerResults(RawMatches(hits), text, settings))} :
                   \E discovered \in RedactDiscoveries[d] :
                      detections' = AddDiscoveries(validated, discovered)
             /\ doc_ents' = RawMatches(hits)["ner"]
    /\ pc' = "redact"
    /\ UNCHANGED <<text, settings, results, queue, calls, response, redactVars>>

NextRedact ==
    \/ DetectAccepted
    \/ RedactPlan
    \/ RedactStep
    \/ RedactReturn
    \/ Respond

SpecRedact == Init /\ [][NextRedact]_vars

(* SpecValidate: the validation of the candidates of a request, on every *)
(* response validate can get                                             *)

ValidateItemAny == ValidateItemWith(ValidateResponses)
ValidateNamesAny == ValidateNamesWith(ValidateResponses)

InitValidate ==
    /\ pc = "validate"
    /\ text = DistinctText
    /\ settings \in RequestSettings
    /\ \E hits \in RequestHits :
          /\ Matches(hits, settings)
          /\ \E res \in {ProducerResults(RawMatches(hits), text, settings)} :
                /\ results = res
                /\ queue = ValidationQueue(res)
          /\ doc_ents = RawMatches(hits)["ner"]
    /\ queue # <<>>
    /\ detections = EmptyResults
    /\ calls = <<>>
    /\ all_detections = <<>>
    /\ filtered_detections = <<>>
    /\ redacted_text = <<>>
    /\ k = 0
    /\ applied = <<>>
    /\ response = NoResponse

NextValidate ==
    \/ ValidateItemAny
    \/ ValidateNamesAny

SpecValidate == InitValidate /\ [][NextValidate]_vars

(* SpecDiscover: discover on every response, for a request whose        *)
(* producers found nothing                                              *)

DiscoverTypes ==
    {"email", "phone", "name", "address", "ssn", "credit_card", "username", "other", "zip"}

AllEntries(t) ==
    {Entry(FALSE, <<>>, <<>>, <<>>, <<>>)}
    \cup {Entry(TRUE, ty, v, s, e) :
            ty \in Optional(DiscoverTypes),
            v \in Optional(Substrings(t) \cup {<<>>, <<"z">>}),
            s \in Optional(Offsets), e \in Optional(Offsets)}

DiscoverAny == DiscoverWith(DiscoverResponses(AllEntries(text)))

InitDiscover ==
    /\ pc = "discover"
    /\ text \in Texts
    /\ settings \in RequestSettings
    /\ Disabled(settings) = {}
    /\ settings.redaction_style = "labels"
    /\ detections = EmptyResults
    /\ Idle

NextDiscover == DiscoverAny

SpecDiscover == InitDiscover /\ [][NextDiscover]_vars

(* SpecNames: a request whose text is long enough for name fragments to be *)
(* more than NameGap apart; the recognizer reports fragments, the username *)
(* pattern at most one match, every candidate is accepted and discover     *)
(* finds nothing                                                           *)

NameTextLen == 12   \* length of the text of a request with names
MaxFragments == 3   \* recognizer entities and username matches together
MinUsernameLen == 3

Letter(i) == Letters[((i - 1) % Len(Letters)) + 1]

\* words of two letters separated by one space, and a text without spaces
NameTexts ==
    {[i \in 1..NameTextLen |-> IF i % 3 = 0 THEN " " ELSE Letter(i)],
     [i \in 1..NameTextLen |-> Letter(i)]}

NameSpans == {se \in (0..NameTextLen) \X (0..NameTextLen) : se[1] < se[2]}

\* doc.ents: up to n entities from position `from` on, ascending and disjoint
RECURSIVE Entities(_, _)
Entities(from, n) ==
    IF n = 0 THEN {<<>>}
    ELSE {<<>>} \cup UNION {{<<se>> \o rest : rest \in Entities(se[2], n - 1)} :
                               se \in {x \in NameSpans : x[1] >= from}}

NameFragments == Entities(0, MaxFragments)

\* the group matched by username_pattern: [a-z0-9_]{3,20}
UsernameMatches ==
    {<<>>} \cup {<<se>> : se \in {x \in NameSpans : x[2] - x[1] >= MinUsernameLen}}

\* lines 517-667 for names alone, with every candidate accepted
DetectNames ==
    /\ pc = "start"
    /\ \E frags \in NameFragments :
          \E users \in UsernameMatches :
             /\ Len(frags) + Len(users) <= MaxFragments
             /\ \E res \in {ProducerResults(
                               [p \in Producers |->
                                   IF p = "ner" THEN frags
                                   ELSE IF p = "usernames" THEN users ELSE <<>>],
                               text, settings)} :
                   /\ results' = res
                   /\ detections' = AcceptAll(res)
             /\ doc_ents' = frags
    /\ pc' = "redact"
    /\ UNCHANGED <<text, settings, queue, calls, response, redactVars>>

InitNames ==
    /\ pc = "start"
    /\ text \in NameTexts
    /\ settings \in {st \in RequestSettings :
                        Disabled(st) = {} /\ st.redaction_style = "labels"}
    /\ detections = EmptyResults
    /\ Idle

NextNames ==
    \/ DetectNames
    \/ RedactPlan
    \/ RedactStep
    \/ RedactReturn
    \/ Respond

SpecNames == InitNames /\ [][NextNames]_vars

-----------------------------------------------------------------------------
(* Properties *)

Plan == Range(filtered_detections)
Candidates == Range(all_detections)
Planned == pc \in {"rewrite", "respond", "done"}
Answered == pc = "done" /\ response.status = 200

\* C1 (no-overlap): any two spans of the plan that survive the overlap filter
\* satisfy a.end <= b.start or b.end <= a.start.
C1_NoOverlap ==
    \A i, j \in 1..Len(filtered_detections) :
        i # j => \/ filtered_detections[i].end <= filtered_detections[j].start
                 \/ filtered_detections[j].end <= filtered_detections[i].start

\* the filter dropped one of three candidates and kept two
C1_Witness ==
    /\ Planned
    /\ Len(all_detections) = 3
    /\ Len(filtered_detections) = 2

\* the original text with the ranges of the given spans (ascending, disjoint)
\* replaced by their labels
RECURSIVE Rebuild(_, _, _)
Rebuild(t, spans, from) ==
    IF spans = <<>> THEN Slice(t, from, Len(t))
    ELSE Slice(t, from, Head(spans).start) \o Head(spans).redaction_label
            \o Rebuild(t, Tail(spans), Head(spans).end)

\* C2 (verbatim-outside): redacted is the original text with only the ranges
\* of the spans actually substituted replaced by their labels; every other
\* character is unchanged and in the same order, skipped spans included.
C2_VerbatimOutside ==
    Planned => redacted_text = Rebuild(text, SortByStart(applied), 0)

\* two spans were substituted and the response is out
C2_Witness ==
    /\ Answered
    /\ Len(applied) >= 2
    /\ response.redacted # text

RECURSIVE SumSeq(_)
SumSeq(ns) == IF ns = <<>> THEN 0 ELSE Head(ns) + SumSeq(Tail(ns))

\* C3 (length accounting): length(redacted) = length(original) minus the sum
\* of (end - start) over the spans actually substituted plus the sum of the
\* lengths of their labels.
C3_LengthAccounting ==
    Planned => Len(redacted_text) = Len(text)
            - SumSeq([i \in 1..Len(applied) |-> Size(applied[i])])
            + SumSeq([i \in 1..Len(applied) |-> Len(applied[i].redaction_label)])

\* one span was substituted, one was skipped, and the length changed
C3_Witness ==
    /\ Answered
    /\ Len(applied) >= 1
    /\ Len(filtered_detections) > Len(applied)
    /\ Len(response.redacted) # Len(text)

\* C4 (category gating): a category whose redact_<category> setting is false
\* has no span in the detections map, whatever the producers and the oracle
\* report.
C4_CategoryGating ==
    \A c \in CategorySet :
        ~settings.redact[c] =>
            /\ detections[c] = <<>>
            /\ (Answered => response.detections[c] = <<>>)

\* position of a plan entry among the plan entries of its category, by start
RankInCategory(d) ==
    Cardinality({e \in Plan : e.key = d.key /\ e.start <= d.start})

\* C5 (indexed labeling): with the indexed style, the spans of the final plan
\* carry, per category, the counters 1..k without gaps in ascending start
\* order, whatever the report order and whatever the resolver dropped.
C5_IndexedLabeling ==
    (Planned /\ settings.redaction_style = "labels") =>
        \A d \in Plan :
            d.redaction_label = get_redaction_label(d.key, RankInCategory(d) - 1, settings)

DisplayName ==
    [emails |-> type_labels.email, phones |-> type_labels.phone,
     names |-> type_labels.name, addresses |-> type_labels.address,
     ssn |-> type_labels.ssn, credit_cards |-> type_labels.credit_card]

StartsWith(s, prefix) == Len(s) >= Len(prefix) /\ SubSeq(s, 1, Len(prefix)) = prefix

\* C6 (category display name): with the indexed style the label of a span is
\* "[" + display name of its category + "_" + n + "]", the display names being
\* EMAIL, PHONE, NAME, ADDRESS, SSN, CARD, for every category key.
C6_CategoryDisplayName ==
    (Planned /\ settings.redaction_style = "labels") =>
        \A d \in Candidates :
            StartsWith(d.redaction_label, <<"[">> \o DisplayName[d.key] \o <<"_">>)

\* two candidates the size-bias rule speaks of: overlapping, of different
\* lengths, of different (enabled) categories; a is the longer one
SizeBiasPair(a, b) ==
    /\ Overlaps(a, b)
    /\ Size(a) > Size(b)
    /\ a.key # b.key

\* C7 (size-bias resolution) as claimed: of two such candidates the longer one
\* is in the final plan and the shorter one is absent from it.
C7_SizeBias ==
    Planned => \A a, b \in Candidates :
                  SizeBiasPair(a, b) => (a \in Plan /\ b \notin Plan)

\* C7 as amended: the longer one is in the final plan unless a candidate at
\* least as long that overlaps it is in the plan; and whenever the longer one
\* is in the plan the shorter one is absent from it.
C7_SizeBiasAmended ==
    Planned => \A a, b \in Candidates :
                  SizeBiasPair(a, b) =>
                      /\ (a \in Plan => b \notin Plan)
                      /\ (a \notin Plan =>
                             \E c \in Plan : Overlaps(a, c) /\ Size(c) >= Size(a))

\* a longer candidate displaced by a third one, and the shorter one kept
C7_Witness ==
    /\ Planned
    /\ \E a, b \in Candidates : SizeBiasPair(a, b) /\ a \notin Plan /\ b \in Plan

\* a validate response that is no well-formed verdict
Malformed(resp) ==
    \/ resp.kind \in {"text", "nonobject"}
    \/ (resp.kind = "object" /\ resp.is_pii = <<>>)

Kept(call) ==
    \E i \in 1..Len(detections[call.key]) :
        /\ detections[call.key][i].start = call.start
        /\ detections[call.key][i].end = call.end

\* C8 (fail-safe on malformed validation): on every validate response that is
\* no well-formed verdict, validate_pii returns isPii = true and the candidate
\* is kept in the detections; it is not dropped and the request does not fail.
C8_FailSafeValidation ==
    \A i \in 1..Len(calls) :
        (calls[i].op = "validate" /\ Malformed(calls[i].resp)) =>
            /\ ~calls[i].raised
            /\ calls[i].value = TRUE
            /\ Kept(calls[i])

\* what the claim says discover_pii makes of one entry
OffsetsValid(det, t) ==
    /\ det.start # <<>> /\ det.end # <<>>
    /\ 0 <= det.start[1] /\ det.start[1] < det.end[1] /\ det.end[1] <= Len(t)
    /\ Slice(t, det.start[1], det.end[1]) = Get(det.value, <<>>)

ClaimedEntry(det, t) ==
    LET value == Get(det.value, <<>>)
        pos   == Find(t, value)
    IN  IF OffsetsValid(det, t)
        THEN <<[type |-> Get(det.type, "other"), value |-> value,
                start |-> det.start[1], end |-> det.end[1]]>>
        ELSE IF pos # -1
             THEN <<[type |-> Get(det.type, "other"), value |-> value,
                     start |-> pos, end |-> pos + Len(value)]>>
             ELSE <<>>

\* C9 (discovery offset fallback): a discovered candidate whose offsets are
\* absent or invalid gets the offsets of the first occurrence of its value, or
\* is dropped when the value does not occur; so every candidate discover_pii
\* returns has 0 <= start < end <= length(text).
C9_DiscoveryOffsetFallback ==
    \A i \in 1..Len(calls) :
        (/\ calls[i].op = "discover"
         /\ calls[i].resp.kind = "object"
         /\ ~calls[i].raised) =>
            LET new_detections == Get(calls[i].resp.new_detections, <<>>)
            IN  /\ calls[i].value = Flatten([j \in 1..Len(new_detections) |->
                                                ClaimedEntry(new_detections[j], text)])
                /\ \A j \in 1..Len(calls[i].value) : InBounds(calls[i].value[j], text)

\* the spans redact_text substitutes for a detection set
SubstitutedOf(dets, st, t) ==
    {d \in Range(PlanOf(dets, st)) : InBounds(d, t) /\ ValueMatches(d, t)}

\* the detections without what discover added
PatternOnly(dets) ==
    [c \in CategorySet |-> SelectSeq(dets[c], LAMBDA d : ~d.discovered)]

\* some character of the span is in the redacted text (the characters of the
\* text are all different and none of them occurs in a label)
InClear(d) ==
    \E p \in (d.start + 1)..d.end : text[p] \in Range(response.redacted)

\* C10 (no leakage from a malfunctioning collaborator): whatever discover
\* returns, every accepted pattern span of an enabled category is replaced in
\* redacted; a discover response adds redactions or is dropped, it never makes
\* a span stay in clear text that is replaced without it.
C10_NoLeakage ==
    Answered =>
        \A d \in SubstitutedOf(PatternOnly(detections), settings, text) : ~InClear(d)

\* C11 (plan bounds): every span of the final plan of redact_text satisfies
\* 0 <= start < end <= length(text), whatever detect_all handed over,
\* discovered spans included.
C11_PlanBounds ==
    Planned => \A d \in Plan : InBounds(d, text)

\* the custom style is selected and the settings carry no custom label
NoCustomLabel ==
    /\ settings.redaction_style = "custom"
    /\ settings.custom_label \in {AbsentLabel, NullLabel}

\* C12 (configuration error first): a request with the custom style and no
\* custom label is rejected with an error before any producer runs and before
\* any oracle call; no detection or rewrite step is executed for it.
C12_ConfigurationErrorFirst ==
    NoCustomLabel =>
        /\ pc \in {"start", "done"}
        /\ calls = <<>>
        /\ all_detections = <<>>
        /\ (pc = "done" => response.status \notin {0, 200})

Failed == \E i \in 1..Len(calls) : calls[i].raised

\* C13 (atomic abort on fatal oracle failure): once an oracle call of the
\* request (validate, discover or explain) has failed, the request is over and
\* its response is the error alone: it carries no redacted, detections or
\* statistics value, and redact_text never ran.
C13_AtomicAbort ==
    Failed =>
        /\ pc = "done"
        /\ response.status = 503
        /\ DOMAIN response = {"status", "detail"}
        /\ all_detections = <<>> /\ redacted_text = <<>>

\* explain, the last call, failed after spans had been validated
C13_Witness ==
    /\ Failed
    /\ calls[Len(calls)].op = "explain"
    /\ \E c \in CategorySet : detections[c] # <<>>
    /\ pc = "done"

\* C14 (distinct rate-limit failure): a request that ends on a rate-limited
\* oracle call (quota / 429) gets an error outcome of another kind (status)
\* than the one a request gets that ends on a fatal oracle failure.
C14_DistinctRateLimit ==
    \A i \in 1..Len(calls) :
        (calls[i].raised /\ calls[i].resp.kind = "raise" /\ calls[i].resp.quota) =>
            /\ pc = "done"
            /\ response.status # OracleError(Raised(FALSE)).status

\* a discover response that is no well-formed list of candidates
MalformedDiscovery(resp) ==
    \/ resp.kind \in {"text", "nonobject"}
    \/ /\ resp.kind = "object"
       /\ \/ resp.new_detections = <<>>
          \/ \E j \in 1..Len(resp.new_detections[1]) : ~resp.new_detections[1][j].isobject

\* C15 (malformed discovery is a no-op): on every malformed discover response
\* discover_pii returns an empty list and the request goes on with the
\* validated spans alone; the request does not fail and no span is added.
C15_MalformedDiscoveryNoOp ==
    \A i \in 1..Len(calls) :
        (calls[i].op = "discover" /\ MalformedDiscovery(calls[i].resp)) =>
            /\ ~calls[i].raised
            /\ calls[i].value = <<>>
            /\ pc # "done"
            /\ \A c \in CategorySet : \A d \in Range(detections[c]) : ~d.discovered

\* the fragments the merge of detect_names gets: the entities whose stripped
\* text has at least MinNameLen characters
Fragments ==
    SelectSeq(doc_ents, LAMBDA e : Len(Strip(Slice(text, e[1], e[2]))) >= MinNameLen)

\* fragment i + 1 of fs starts within NameGap of the end of fragment i
Linked(fs, i) == fs[i + 1][1] - fs[i][2] <= NameGap

\* fragments i..j of fs are a maximal chain of linked fragments
MaximalChain(fs, i, j) ==
    /\ i <= j
    /\ \A l \in i..(j - 1) : Linked(fs, l)
    /\ (i = 1 \/ ~Linked(fs, i - 1))
    /\ (j = Len(fs) \/ ~Linked(fs, j))

MergedNames == detect_names(doc_ents, text, settings)

\* C16 (name fragment merge): for pairwise non-overlapping fragments the merge
\* of detect_names returns spans in ascending order, consecutive ones more
\* than 5 characters apart, one span per maximal chain of fragments whose
\* consecutive gaps are at most 5, running from the start of the chain's first
\* fragment to the end of its last one.  (Stated where detect_all has just
\* run: the entities and the results do not change afterwards.)
C16_NameFragmentMerge ==
    pc = "redact" =>
        LET fs     == Fragments
            merged == MergedNames
            n      == Len(fs)
        IN  /\ \A c \in 1..Len(merged) : results["names"][c] = merged[c]
            /\ \A c \in 1..(Len(merged) - 1) :
                  merged[c + 1].start - merged[c].end > NameGap
            /\ \A c \in 1..Len(merged) :
                  \E i, j \in 1..n :
                     /\ MaximalChain(fs, i, j)
                     /\ merged[c].start = fs[i][1]
                     /\ merged[c].end = fs[j][2]
            /\ Len(merged) = Cardinality({i \in 1..n : \E j \in 1..n : MaximalChain(fs, i, j)})

\* three fragments became one span although the third one starts more than
\* NameGap after the end of the first
C16_Witness ==
    /\ pc = "redact"
    /\ Len(Fragments) = 3
    /\ Len(MergedNames) = 1
    /\ Fragments[3][1] - Fragments[1][2] > NameGap

\* C17 (span value is the literal text): every pattern-detected span of the
\* detections detect_all returns, merged and grouped names included, has
\* value = text[start:end].
C17_ValueIsLiteralText ==
    \A c \in CategorySet :
        \A d \in Range(detections[c]) :
            ~d.discovered => d.value = Slice(text, d.start, d.end)

\* C20 (every planned span is applied when the oracle behaves): when every
\* candidate is accepted and nothing is discovered, each span that survives
\* the overlap resolver is replaced by its label in the redacted text; the
\* value check of the rewriter skips none of them.
C20_PlannedSpansApplied ==
    Answered => \A d \in Plan : d \in Range(applied)

\* the rewrite loop is about to process a span that passes its bounds check
AtSpan ==
    /\ pc = "rewrite"
    /\ k < Len(filtered_detections)
    /\ InBounds(filtered_detections[k + 1], text)

\* C18 (rewriter offsets stay valid): when the descending-start loop reaches a
\* span, the working copy and the original agree up to the span's end, so the
\* value check made on the original gives the result the check on the working
\* copy would give, and the splice removes the span's original characters.
C18_OffsetsStayValid ==
    AtSpan =>
        LET detection == filtered_detections[k + 1]
        IN  /\ Slice(redacted_text, 0, detection.end) = Slice(text, 0, detection.end)
            /\ ValueMatches(detection, redacted_text) = ValueMatches(detection, text)
            /\ \A i \in 1..Len(applied) : applied[i].start >= detection.end

\* a span is reached after an earlier substitution changed the working copy
C18_Witness ==
    /\ AtSpan
    /\ applied # <<>>
    /\ Len(redacted_text) # Len(text)
    /\ ValueMatches(filtered_detections[k + 1], text)

CallsOf(op) == {i \in 1..Len(calls) : calls[i].op = op}

StepOf(op) == CASE op = "validate" -> 1 [] op = "discover" -> 2 [] op = "explain" -> 3

\* C19 (oracle call order without retry): every candidate and every name group
\* is validated at most once, all validate calls come before the one discover
\* call, the one explain call comes after it and is the last call; a failed
\* call is the last call of the request.
C19_CallOrder ==
    /\ \A i, j \in 1..Len(calls) :
          i < j => /\ StepOf(calls[i].op) <= StepOf(calls[j].op)
                   /\ ~calls[i].raised
                   /\ calls[i].op = calls[j].op =>
                         /\ calls[i].op = "validate"
                         /\ <<calls[i].key, calls[i].start, calls[i].end>>
                               # <<calls[j].key, calls[j].start, calls[j].end>>
    /\ Failed => pc = "done"
    /\ (pc \notin {"start", "validate"} /\ ~Failed) =>
          /\ Cardinality(CallsOf("validate")) = Len(ValidationQueue(results))
          /\ Cardinality(CallsOf("discover")) = (IF pc = "discover" THEN 0 ELSE 1)
          /\ Cardinality(CallsOf("explain")) = (IF pc \in {"discover", "explain"} THEN 0 ELSE 1)

\* a request answered after two validations, the discovery and the explanation
C19_Witness ==
    /\ Answered
    /\ Cardinality(CallsOf("validate")) = 2
    /\ calls[Len(calls)].op = "explain"

====
